---- MODULE Spec2Model ----
(***************************************************************************)
(* lineup: the item tokenizer (ItemReader) and the item emitter            *)
(* (ItemWriter) of src/lib.rs, the two composed by write() over read()     *)
(* and by read() on the output of write(),                                 *)
(* and main with its argument parser (src/config.rs) and its own           *)
(* tokenizer (src/util.rs).                                                *)
(*                                                                         *)
(* A Rust str is modelled as the sequence of its UTF-8 bytes (numbers      *)
(* 0..255); a char is the sequence of the bytes that encode it.            *)
(***************************************************************************)
EXTENDS Integers, Sequences, FiniteSets, TLC

VARIABLES
    \* ItemReader (lib.rs:200-206)
    input,                  \* ItemReader.input: the remaining input
    in_fmt,                 \* ItemReader.fmt
    items_in_current_line,  \* ItemReader.items_in_current_line
    reader_pc,              \* "ready", or "panicked" once split_at has panicked
    orig,                   \* history: the text the reader was constructed on
    reader_log,             \* history: one record per call of next()
    \* ItemWriter (lib.rs:191-198) and the sink it writes to
    separator,              \* ItemWriter.separator
    out_fmt,                \* ItemWriter.fmt
    items_in_line,          \* ItemWriter.items_in_line
    ostream,                \* the bytes the sink has accepted
    ostream_cap,            \* the sink's capacity in bytes, Unbounded for none
    writer_pc,              \* "ready", "failed" after a sink error, "panicked"
    writer_log,             \* history: one record per call of ItemWriter::write
    \* main (main.rs:7-18)
    arg,                    \* the input item separator argument handed to parse
    main_pc,                \* "idle", "start", "rejected", "configured", "writing", ...
    main_istream            \* main's istream: the items of to_iter not yet written

reader_vars == <<input, in_fmt, items_in_current_line, reader_pc, orig, reader_log>>
writer_vars == <<separator, out_fmt, items_in_line, ostream, ostream_cap, writer_pc, writer_log>>
main_vars == <<arg, main_pc, main_istream>>
vars == <<reader_vars, writer_vars, main_vars>>

----------------------------------------------------------------------------
(* Bounds *)

MaxInputLen == 4    \* chars of the reader's input text
MaxSepLen == 2      \* chars of an explicit input item separator
MaxCount == 3       \* ByteCount(n), n in 1..MaxCount
MaxPerLine == 2     \* items_per_line in 1..MaxPerLine
MaxCalls == 6       \* calls of next() on one reader
MaxItems == 3       \* calls of write() on one writer
MaxSpan == 2        \* ItemSpan.span in 0..MaxSpan
MaxCap == 3         \* capacity of a bounded sink

----------------------------------------------------------------------------
(* Text *)

LetterA == <<97>>            \* "a"
LetterE == <<195, 169>>      \* a two-byte char
Comma == <<44>>              \* ","
Semicolon == <<59>>          \* ";"
Bar == <<124>>               \* "|"
Underscore == <<95>>         \* "_"

RECURSIVE StringsOver(_, _)
\* every string of at most n chars drawn from chars
StringsOver(chars, n) ==
    IF n = 0 THEN {<<>>}
    ELSE LET shorter == StringsOver(chars, n - 1)
         IN  shorter \cup {s \o c : s \in shorter, c \in chars}

\* a UTF-8 continuation byte (10xxxxxx)
IsContinuation(b) == b >= 128 /\ b < 192

\* str::is_char_boundary, the check split_at makes before it splits
IsCharBoundary(s, i) ==
    \/ i = 0
    \/ i = Len(s)
    \/ i < Len(s) /\ ~IsContinuation(s[i + 1])

\* str.chars().count(): the number of Unicode scalar values
CharCount(s) == Cardinality({i \in 1..Len(s) : ~IsContinuation(s[i])})

\* s[from+1 .. ] as a string
Tail_from(s, from) == SubSeq(s, from + 1, Len(s))

\* pat occurs in s at byte offset i (0-based)
MatchAt(s, pat, i) ==
    /\ i + Len(pat) <= Len(s)
    /\ \A j \in 1..Len(pat) : s[i + j] = pat[j]

\* the byte offsets at which pat occurs in s
Matches(s, pat) == {i \in 0..Len(s) : MatchAt(s, pat, i)}

SetMin(S) == CHOOSE x \in S : \A y \in S : x <= y

----------------------------------------------------------------------------
(* Format model *)

Explicit(sep) == [kind |-> "Explicit", sep |-> sep, count |-> 0]
ByteCount(n) == [kind |-> "ByteCount", sep |-> <<>>, count |-> n]

NoLineSeparator == [present |-> FALSE, items_per_line |-> 1, line_separator |-> <<>>]
LineSeparator(n, sep) == [present |-> TRUE, items_per_line |-> n, line_separator |-> sep]

NoSpan == [present |-> FALSE, span |-> 0, pad |-> <<>>, anchor |-> "Left"]
ItemSpan(span, pad, anchor) == [present |-> TRUE, span |-> span, pad |-> pad, anchor |-> anchor]

InFormat(item_separator, line_separator) ==
    [item_separator |-> item_separator, line_separator |-> line_separator]

OutFormat(span, item_separator, line_separator) ==
    [span |-> span, item_separator |-> item_separator, line_separator |-> line_separator]

\* the default output format with "," for the item separator
DefaultOutFormat_comma == OutFormat(NoSpan, <<44>>, NoLineSeparator)

\* OutFormatBuilder::default().build(): the output format with no field set
DefaultOutFormat == OutFormat(NoSpan, <<32>>, NoLineSeparator)

----------------------------------------------------------------------------
(* Option<&str> as returned by next_item, and a panic *)

None == [kind |-> "None", item |-> <<>>]
Some(item) == [kind |-> "Some", item |-> item]
Panic == [kind |-> "Panic", item |-> <<>>]

----------------------------------------------------------------------------
(* Item Reader *)

\* the split made at the last occurrence of pat (str::rsplit_once)
split_once_at_last(s, pat) ==
    LET m == Matches(s, pat)
    IN  IF m = {}
        THEN [found |-> FALSE, item |-> <<>>, remainder |-> <<>>]
        ELSE LET i == CHOOSE x \in m : \A y \in m : y <= x
             IN  [found |-> TRUE,
                  item |-> SubSeq(s, 1, i),
                  remainder |-> Tail_from(s, i + Len(pat))]

\* str::split_once: split at the first occurrence of pat
split_once(s, pat) ==
    LET m == Matches(s, pat)
    IN  IF m = {}
        THEN [found |-> FALSE, item |-> <<>>, remainder |-> <<>>]
        ELSE LET i == SetMin(m)
             IN  [found |-> TRUE,
                  item |-> SubSeq(s, 1, i),
                  remainder |-> Tail_from(s, i + Len(pat))]

\* next_item without the item.is_empty() test of the Explicit branch
next_item_yielding_empty(inp, sep) ==
    IF inp = <<>>
    THEN [ret |-> None, input |-> inp]
    ELSE IF sep.kind = "Explicit"
    THEN LET found == split_once(inp, sep.sep)
         IN  IF ~found.found
             THEN [ret |-> Some(inp), input |-> <<>>]
             ELSE [ret |-> Some(found.item), input |-> found.remainder]
    ELSE IF Len(inp) >= sep.count
    THEN IF IsCharBoundary(inp, sep.count)
         THEN [ret |-> Some(SubSeq(inp, 1, sep.count)),
               input |-> Tail_from(inp, sep.count)]
         ELSE [ret |-> Panic, input |-> inp]
    ELSE [ret |-> None, input |-> <<>>]

\* next_item with the ByteCount test written > for >=
next_item_strict_len(inp, sep) ==
    IF inp = <<>>
    THEN [ret |-> None, input |-> inp]
    ELSE IF sep.kind = "Explicit"
    THEN LET found == split_once(inp, sep.sep)
         IN  IF ~found.found
             THEN [ret |-> Some(inp), input |-> <<>>]
             ELSE [ret |-> IF found.item = <<>> THEN None ELSE Some(found.item),
                   input |-> found.remainder]
    ELSE IF Len(inp) > sep.count
    THEN IF IsCharBoundary(inp, sep.count)
         THEN [ret |-> Some(SubSeq(inp, 1, sep.count)),
               input |-> Tail_from(inp, sep.count)]
         ELSE [ret |-> Panic, input |-> inp]
    ELSE [ret |-> None, input |-> <<>>]

\* next_item yielding the short final remainder of ByteCount as an item
next_item_partial(inp, sep) ==
    IF inp = <<>>
    THEN [ret |-> None, input |-> inp]
    ELSE IF sep.kind = "Explicit"
    THEN LET found == split_once(inp, sep.sep)
         IN  IF ~found.found
             THEN [ret |-> Some(inp), input |-> <<>>]
             ELSE [ret |-> IF found.item = <<>> THEN None ELSE Some(found.item),
                   input |-> found.remainder]
    ELSE IF Len(inp) >= sep.count
    THEN IF IsCharBoundary(inp, sep.count)
         THEN [ret |-> Some(SubSeq(inp, 1, sep.count)),
               input |-> Tail_from(inp, sep.count)]
         ELSE [ret |-> Panic, input |-> inp]
    ELSE [ret |-> Some(inp), input |-> <<>>]

\* next_item with the ByteCount branch not advancing self.input
next_item_not_advancing(inp, sep) ==
    IF inp = <<>>
    THEN [ret |-> None, input |-> inp]
    ELSE IF sep.kind = "Explicit"
    THEN LET found == split_once(inp, sep.sep)
         IN  IF ~found.found
             THEN [ret |-> Some(inp), input |-> <<>>]
             ELSE [ret |-> IF found.item = <<>> THEN None ELSE Some(found.item),
                   input |-> found.remainder]
    ELSE IF Len(inp) >= sep.count
    THEN IF IsCharBoundary(inp, sep.count)
         THEN [ret |-> Some(SubSeq(inp, 1, sep.count)), input |-> inp]
         ELSE [ret |-> Panic, input |-> inp]
    ELSE [ret |-> None, input |-> <<>>]

\* next_item splitting at byte n whether or not a char ends there
next_item_splitting_bytes(inp, sep) ==
    IF inp = <<>> THEN [ret |-> None, input |-> inp]
    ELSE IF sep.kind = "Explicit"
    THEN LET found == split_once(inp, sep.sep)
         IN  IF ~found.found THEN [ret |-> Some(inp), input |-> <<>>]
             ELSE [ret |-> IF found.item = <<>> THEN None ELSE Some(found.item),
                   input |-> found.remainder]
    ELSE IF Len(inp) >= sep.count
    THEN [ret |-> Some(SubSeq(inp, 1, sep.count)), input |-> Tail_from(inp, sep.count)]
    ELSE [ret |-> None, input |-> <<>>]

\* next_item without the check `if self.input.is_empty()`
next_item_no_empty_check(inp, sep) ==
    IF sep.kind = "Explicit"
    THEN LET found == split_once(inp, sep.sep)
         IN  IF ~found.found THEN [ret |-> Some(inp), input |-> <<>>]
             ELSE [ret |-> IF found.item = <<>> THEN None ELSE Some(found.item),
                   input |-> found.remainder]
    ELSE IF Len(inp) >= sep.count
    THEN IF IsCharBoundary(inp, sep.count)
         THEN [ret |-> Some(SubSeq(inp, 1, sep.count)), input |-> Tail_from(inp, sep.count)]
         ELSE [ret |-> Panic, input |-> inp]
    ELSE [ret |-> None, input |-> <<>>]

\* next_item with the text after the last delimiter dropped instead of yielded
next_item_dropping_last(inp, sep) ==
    IF inp = <<>> THEN [ret |-> None, input |-> inp]
    ELSE IF sep.kind = "Explicit"
    THEN LET found == split_once(inp, sep.sep)
         IN  IF ~found.found THEN [ret |-> None, input |-> <<>>]
             ELSE [ret |-> IF found.item = <<>> THEN None ELSE Some(found.item),
                   input |-> found.remainder]
    ELSE IF Len(inp) >= sep.count
    THEN IF IsCharBoundary(inp, sep.count)
         THEN [ret |-> Some(SubSeq(inp, 1, sep.count)), input |-> Tail_from(inp, sep.count)]
         ELSE [ret |-> Panic, input |-> inp]
    ELSE [ret |-> None, input |-> <<>>]

\* ItemReader::next_item: the value returned and the new self.input
next_item(inp, sep) ==
    IF inp = <<>>
    THEN [ret |-> None, input |-> inp]
    ELSE IF sep.kind = "Explicit"
    THEN LET found == split_once(inp, sep.sep)
         IN  IF ~found.found
             THEN [ret |-> Some(inp), input |-> <<>>]
             ELSE [ret |-> IF found.item = <<>> THEN None ELSE Some(found.item),
                   input |-> found.remainder]
    ELSE IF Len(inp) >= sep.count
    THEN IF IsCharBoundary(inp, sep.count)
         THEN [ret |-> Some(SubSeq(inp, 1, sep.count)),
               input |-> Tail_from(inp, sep.count)]
         ELSE [ret |-> Panic, input |-> inp]
    ELSE [ret |-> None, input |-> <<>>]

\* the choice with the line separator taken when the counter reaches
\* items_per_line, one item late
choose_separator_late(fmt, count) ==
    IF fmt.line_separator.present
    THEN IF count = fmt.line_separator.items_per_line
         THEN [separator |-> Explicit(fmt.line_separator.line_separator), count |-> 0]
         ELSE [separator |-> fmt.item_separator, count |-> count + 1]
    ELSE [separator |-> fmt.item_separator, count |-> count]

\* the separator next() hands to next_item and the new items_in_current_line
choose_separator(fmt, count) ==
    IF fmt.line_separator.present
    THEN IF count = fmt.line_separator.items_per_line - 1
         THEN [separator |-> Explicit(fmt.line_separator.line_separator), count |-> 0]
         ELSE [separator |-> fmt.item_separator, count |-> count + 1]
    ELSE [separator |-> fmt.item_separator, count |-> count]

\* <ItemReader as Iterator>::next on the reader r = (input, items_in_current_line)
ItemReader_next(fmt, r) ==
    LET chosen == choose_separator(fmt, r.items_in_current_line)
        item == next_item(r.input, chosen.separator)
    IN  [ret |-> item.ret, input |-> item.input,
         items_in_current_line |-> chosen.count, separator |-> chosen.separator]

RECURSIVE read_stream(_, _, _)
\* the items a consumer of read(input, format) gets: those before the first
\* None (n bounds the number of calls)
read_stream(fmt, r, n) ==
    IF n = 0 THEN <<>>
    ELSE LET step == ItemReader_next(fmt, r)
         IN  IF step.ret.kind # "Some" THEN <<>>
             ELSE <<step.ret.item>> \o
                  read_stream(fmt, [input |-> step.input,
                                    items_in_current_line |-> step.items_in_current_line],
                              n - 1)

\* ItemReader::new(input, fmt)
NewReader(text) == [input |-> text, items_in_current_line |-> 0]

\* <ItemReader as Iterator>::next on the reader held in the variables
next_call ==
    /\ reader_pc = "ready"
    /\ LET step == ItemReader_next(in_fmt,
                       [input |-> input, items_in_current_line |-> items_in_current_line])
       IN  /\ items_in_current_line' = step.items_in_current_line
           /\ input' = step.input
           /\ reader_pc' = IF step.ret.kind = "Panic" THEN "panicked" ELSE "ready"
           /\ reader_log' = Append(reader_log,
                  [separator |-> step.separator,
                   counter_before |-> items_in_current_line,
                   counter_after |-> step.items_in_current_line,
                   before |-> input,
                   after |-> step.input,
                   ret |-> step.ret])
    /\ UNCHANGED <<in_fmt, orig>>

\* one call of next() on the reader
next ==
    /\ Len(reader_log) < MaxCalls
    /\ next_call
    /\ UNCHANGED <<writer_vars, main_vars>>

\* the input texts and the input formats the reader is constructed on
InputChars == {LetterA, LetterE, Comma, Semicolon}
SeparatorChars == {LetterA, Comma}
LineSeparators == {Semicolon, Comma}

Inputs == StringsOver(InputChars, MaxInputLen)

ItemSeparators ==
    {Explicit(sep) : sep \in StringsOver(SeparatorChars, MaxSepLen)}
        \cup {ByteCount(n) : n \in 1..MaxCount}

InLineSeparators ==
    {NoLineSeparator}
        \cup {LineSeparator(n, sep) : n \in 1..MaxPerLine, sep \in LineSeparators}

InFormats == {InFormat(s, l) : s \in ItemSeparators, l \in InLineSeparators}

\* a sink that accepts every byte, and one that accepts at most cap bytes
UnboundedSink == [bounded |-> FALSE, cap |-> 0]
BoundedSink(cap) == [bounded |-> TRUE, cap |-> cap]

\* main is not running while the library is checked on its own
MainIdle ==
    /\ arg = <<>>
    /\ main_pc = "idle"
    /\ main_istream = <<>>

\* the writer is not used while the reader is checked
WriterIdle ==
    /\ separator = "None"
    /\ out_fmt = DefaultOutFormat
    /\ items_in_line = 0
    /\ ostream = <<>>
    /\ ostream_cap = UnboundedSink
    /\ writer_pc = "ready"
    /\ writer_log = <<>>

\* the readers read() constructs, one per input text and input format
InitReader ==
    /\ input \in {NewReader(text).input : text \in Inputs}
    /\ in_fmt \in InFormats
    /\ items_in_current_line = NewReader(input).items_in_current_line
    /\ reader_pc = "ready"
    /\ orig = input
    /\ reader_log = <<>>
    /\ WriterIdle
    /\ MainIdle

NextReader == next

SpecReader == InitReader /\ [][NextReader]_vars

----------------------------------------------------------------------------
(* Item Writer *)

\* io::Write::write_all on the sink: all of buf is accepted, or the sink
\* takes the bytes it has room for and the call fails
write_all(snk, cap, buf) ==
    IF ~cap.bounded \/ Len(snk) + Len(buf) <= cap.cap
    THEN [ok |-> TRUE, sink |-> snk \o buf]
    ELSE [ok |-> FALSE, sink |-> snk \o SubSeq(buf, 1, cap.cap - Len(snk))]

\* the separator emitted before the item: what the previous call decided
separator_bytes(fmt, sep) ==
    IF sep = "Item" THEN fmt.item_separator
    ELSE IF sep = "Line" THEN fmt.line_separator.line_separator
    ELSE <<>>

\* Option::unwrap of fmt.line_separator fails
unwrap_fails(fmt, sep) == sep = "Line" /\ ~fmt.line_separator.present

\* the item's length taken in bytes (item.len())
input_chars_in_bytes(item) == Len(item)

\* let input_chars = item.chars().count()
input_chars(item) == CharCount(item)

RECURSIVE repeat(_, _)
\* String::from_iter(std::iter::repeat(pad).take(n))
repeat(pad, n) == IF n <= 0 THEN <<>> ELSE pad \o repeat(pad, n - 1)

\* the first n chars of s
TakeChars(s, n) ==
    LET ends == {i \in 0..Len(s) : IsCharBoundary(s, i) /\ CharCount(SubSeq(s, 1, i)) <= n}
    IN  SubSeq(s, 1, CHOOSE i \in ends : \A j \in ends : j <= i)

\* the buffers written for the item when an item wider than the span is cut
\* to the span
item_parts_truncating(fmt, item) ==
    IF fmt.span.present /\ input_chars(item) < fmt.span.span
    THEN LET pad_count == fmt.span.span - input_chars(item)
             pad == repeat(fmt.span.pad, pad_count)
         IN  IF fmt.span.anchor = "Left" THEN <<item, pad>> ELSE <<pad, item>>
    ELSE IF fmt.span.present THEN <<TakeChars(item, fmt.span.span)>>
    ELSE <<item>>

\* the one or two buffers written for the item, in the order written
item_parts(fmt, item) ==
    IF fmt.span.present /\ input_chars(item) < fmt.span.span
    THEN LET pad_count == fmt.span.span - input_chars(item)
             pad == repeat(fmt.span.pad, pad_count)
         IN  IF fmt.span.anchor = "Left" THEN <<item, pad>> ELSE <<pad, item>>
    ELSE <<item>>

\* the decision with the line closed one item late (<= for <)
next_separator_late(fmt, count) ==
    IF fmt.line_separator.present
    THEN IF count + 1 <= fmt.line_separator.items_per_line
         THEN [separator |-> "Item", items_in_line |-> count + 1]
         ELSE [separator |-> "Line", items_in_line |-> 0]
    ELSE [separator |-> "Item", items_in_line |-> 0]

\* decide on separator for next input
next_separator(fmt, count) ==
    IF fmt.line_separator.present
    THEN IF count + 1 < fmt.line_separator.items_per_line
         THEN [separator |-> "Item", items_in_line |-> count + 1]
         ELSE [separator |-> "Line", items_in_line |-> 0]
    ELSE [separator |-> "Item", items_in_line |-> 0]

\* ItemWriter::write with the separator for the next item decided before the
\* writes to the sink, so that a failed call has moved the cursor already
ItemWriter_write_deciding_first(fmt, cap, w, snk, item) ==
    IF unwrap_fails(fmt, w.separator)
    THEN [res |-> "Panic", separator |-> w.separator, items_in_line |-> w.items_in_line,
          ostream |-> snk, sep_bytes |-> <<>>, body |-> <<>>]
    ELSE LET parts == item_parts(fmt, item)
             w1 == write_all(snk, cap, separator_bytes(fmt, w.separator))
             w2 == write_all(w1.sink, cap, parts[1])
             w3 == IF Len(parts) = 2 THEN write_all(w2.sink, cap, parts[2]) ELSE w2
             ok == w1.ok /\ w2.ok /\ w3.ok
             final == IF ~w1.ok THEN w1.sink ELSE IF ~w2.ok THEN w2.sink ELSE w3.sink
             decided == next_separator(fmt, w.items_in_line)
         IN  [res |-> IF ok THEN "Ok" ELSE "Err",
              separator |-> decided.separator,
              items_in_line |-> decided.items_in_line,
              ostream |-> final,
              sep_bytes |-> Tail_from(w1.sink, Len(snk)),
              body |-> Tail_from(final, Len(w1.sink))]

\* ItemWriter::write(item, writer) on the writer w = (separator, items_in_line)
\* and the sink contents snk: the result, the new writer and the new sink
ItemWriter_write(fmt, cap, w, snk, item) ==
    IF unwrap_fails(fmt, w.separator)
    THEN [res |-> "Panic", separator |-> w.separator, items_in_line |-> w.items_in_line,
          ostream |-> snk, sep_bytes |-> <<>>, body |-> <<>>]
    ELSE LET parts == item_parts(fmt, item)
             w1 == write_all(snk, cap, separator_bytes(fmt, w.separator))
             w2 == write_all(w1.sink, cap, parts[1])
             w3 == IF Len(parts) = 2 THEN write_all(w2.sink, cap, parts[2]) ELSE w2
             ok == w1.ok /\ w2.ok /\ w3.ok
             final == IF ~w1.ok THEN w1.sink ELSE IF ~w2.ok THEN w2.sink ELSE w3.sink
             decided == next_separator(fmt, w.items_in_line)
         IN  [res |-> IF ok THEN "Ok" ELSE "Err",
              separator |-> IF ok THEN decided.separator ELSE w.separator,
              items_in_line |-> IF ok THEN decided.items_in_line ELSE w.items_in_line,
              ostream |-> final,
              sep_bytes |-> Tail_from(w1.sink, Len(snk)),
              body |-> Tail_from(final, Len(w1.sink))]

RECURSIVE write_stream(_, _, _, _, _)
\* write(istream, ostream, format): the loop over the items, left at the
\* first call that does not return Ok
write_stream(fmt, cap, w, snk, istream) ==
    IF istream = <<>>
    THEN [res |-> "Ok", ostream |-> snk]
    ELSE LET r == ItemWriter_write(fmt, cap, w, snk, Head(istream))
         IN  IF r.res # "Ok"
             THEN [res |-> r.res, ostream |-> r.ostream]
             ELSE write_stream(fmt, cap,
                      [separator |-> r.separator, items_in_line |-> r.items_in_line],
                      r.ostream, Tail(istream))

\* ItemWriter::new(format)
NewWriter == [separator |-> "None", items_in_line |-> 0]

\* the loop body with the result of writer.write dropped (no `?`)
write_call_ignoring_failure(item) ==
    /\ writer_pc \in {"ready", "failed"}
    /\ LET r == ItemWriter_write(out_fmt, ostream_cap,
                    [separator |-> separator, items_in_line |-> items_in_line],
                    ostream, item)
       IN  /\ ostream' = r.ostream
           /\ separator' = r.separator
           /\ items_in_line' = r.items_in_line
           /\ writer_pc' = IF r.res = "Ok" THEN "ready"
                           ELSE IF r.res = "Err" THEN "failed" ELSE "panicked"
           /\ writer_log' = Append(writer_log,
                  [item |-> item, separator |-> separator,
                   sep_bytes |-> r.sep_bytes, body |-> r.body, res |-> r.res])
    /\ UNCHANGED <<out_fmt, ostream_cap>>

\* writer.write(item, &mut ostream)? on the writer held in the variables
write_call(item) ==
    /\ writer_pc = "ready"
    /\ LET r == ItemWriter_write(out_fmt, ostream_cap,
                    [separator |-> separator, items_in_line |-> items_in_line],
                    ostream, item)
       IN  /\ ostream' = r.ostream
           /\ separator' = r.separator
           /\ items_in_line' = r.items_in_line
           /\ writer_pc' = IF r.res = "Ok" THEN "ready"
                           ELSE IF r.res = "Err" THEN "failed" ELSE "panicked"
           /\ writer_log' = Append(writer_log,
                  [item |-> item, separator |-> separator,
                   sep_bytes |-> r.sep_bytes, body |-> r.body, res |-> r.res])
    /\ UNCHANGED <<out_fmt, ostream_cap>>

\* one turn of the loop of write() over items the caller supplies
write(item) ==
    /\ Len(writer_log) < MaxItems
    /\ write_call(item)
    /\ UNCHANGED <<reader_vars, main_vars>>

\* the items, the output formats and the sinks the writer is checked on
ItemChars == {LetterA, LetterE}
PadChars == {Underscore, LetterE}
Items == {<<>>} \cup ItemChars \cup {LetterA \o LetterE}

ItemSpans ==
    {NoSpan} \cup {ItemSpan(n, pad, anchor) :
                      n \in 0..MaxSpan, pad \in PadChars, anchor \in {"Left", "Right"}}

OutLineSeparators ==
    {NoLineSeparator} \cup {LineSeparator(n, Semicolon) : n \in 1..MaxPerLine}

OutFormats ==
    {OutFormat(s, Bar, l) : s \in ItemSpans, l \in OutLineSeparators}
        \cup {DefaultOutFormat}

Sinks == {UnboundedSink} \cup {BoundedSink(cap) : cap \in 0..MaxCap}

\* the reader is not used while the writer is checked
ReaderIdle ==
    /\ input = <<>>
    /\ in_fmt = InFormat(Explicit(Comma), NoLineSeparator)
    /\ items_in_current_line = 0
    /\ reader_pc = "ready"
    /\ orig = <<>>
    /\ reader_log = <<>>

\* the writers write() constructs, one per output format and sink
InitWriter ==
    /\ separator = NewWriter.separator
    /\ out_fmt \in OutFormats
    /\ items_in_line = NewWriter.items_in_line
    /\ ostream = <<>>
    /\ ostream_cap \in Sinks
    /\ writer_pc = "ready"
    /\ writer_log = <<>>
    /\ ReaderIdle
    /\ MainIdle

NextWriter == \E item \in Items : write(item)

SpecWriter == InitWriter /\ [][NextWriter]_vars

----------------------------------------------------------------------------
(* write(read(input, in_fmt), ostream, out_fmt): the reader feeding the writer *)

\* one turn of `for item in istream` of write() with istream = read(..):
\* the loop calls next(); an item is handed to writer.write(item, ..)?, None
\* ends the loop and write() returns Ok(()), a panic unwinds through write()
write_from_reader ==
    /\ writer_pc = "ready"
    /\ Len(reader_log) < MaxCalls
    /\ next_call
    /\ LET ret == reader_log'[Len(reader_log')].ret
       IN  IF ret.kind = "Some"
           THEN write_call(ret.item)
           ELSE /\ writer_pc' = IF ret.kind = "None" THEN "done" ELSE "panicked"
                /\ UNCHANGED <<separator, out_fmt, items_in_line, ostream,
                               ostream_cap, writer_log>>
    /\ UNCHANGED main_vars

\* the formats of a round trip on the delimiter d: split on d, join with d
RoundTripFormats(d) ==
    [in_fmt |-> InFormat(Explicit(d), NoLineSeparator),
     out_fmt |-> OutFormat(NoSpan, d, NoLineSeparator)]

\* the runs checked: every text through a round trip on every delimiter, and
\* the empty text through every input format and every output format
ReadWriteRuns ==
    {[input |-> text, in_fmt |-> RoundTripFormats(s.sep).in_fmt,
      out_fmt |-> RoundTripFormats(s.sep).out_fmt] :
        text \in Inputs, s \in {x \in ItemSeparators : x.kind = "Explicit"}}
    \cup {[input |-> <<>>, in_fmt |-> i, out_fmt |-> o] :
              i \in InFormats, o \in OutFormats}

InitReadWrite ==
    /\ \E run \in ReadWriteRuns :
          /\ input = NewReader(run.input).input
          /\ in_fmt = run.in_fmt
          /\ out_fmt = run.out_fmt
    /\ items_in_current_line = NewReader(input).items_in_current_line
    /\ reader_pc = "ready"
    /\ orig = input
    /\ reader_log = <<>>
    /\ separator = NewWriter.separator
    /\ items_in_line = NewWriter.items_in_line
    /\ ostream = <<>>
    /\ ostream_cap \in Sinks
    /\ writer_pc = "ready"
    /\ writer_log = <<>>
    /\ MainIdle

NextReadWrite == write_from_reader

SpecReadWrite == InitReadWrite /\ [][NextReadWrite]_vars

----------------------------------------------------------------------------
(* read(output, in_fmt) on the output write() has produced *)

\* no reader is constructed yet
ReaderUnborn ==
    /\ input = <<>>
    /\ items_in_current_line = 0
    /\ reader_pc = "idle"
    /\ orig = <<>>
    /\ reader_log = <<>>

\* write() has returned Ok and read(output, in_fmt) constructs the reader on
\* the bytes the sink holds
read ==
    /\ writer_pc = "ready"
    /\ reader_pc = "idle"
    /\ writer_pc' = "done"
    /\ input' = NewReader(ostream).input
    /\ items_in_current_line' = NewReader(ostream).items_in_current_line
    /\ orig' = ostream
    /\ reader_pc' = "ready"
    /\ reader_log' = <<>>
    /\ UNCHANGED <<in_fmt, separator, out_fmt, items_in_line, ostream, ostream_cap,
                   writer_log, main_vars>>

\* the formats of a round trip with line grouping: written with item
\* separator s and k items per line closed by l, read back with the same
MatchingFormats(s, k, l) ==
    [out_fmt |-> OutFormat(NoSpan, s, LineSeparator(k, l)),
     in_fmt |-> InFormat(Explicit(s), LineSeparator(k, l))]

\* the separators written and read back: one char, and two chars with and
\* without a char in common with the items or with each other
MatchingSeparators == {Comma, Semicolon, LetterA \o LetterA, Comma \o Semicolon}

InitWriteRead ==
    /\ \E s \in MatchingSeparators, k \in 1..MaxPerLine :
          \E l \in MatchingSeparators \ {s} :
              /\ out_fmt = MatchingFormats(s, k, l).out_fmt
              /\ in_fmt = MatchingFormats(s, k, l).in_fmt
    /\ separator = NewWriter.separator
    /\ items_in_line = NewWriter.items_in_line
    /\ ostream = <<>>
    /\ ostream_cap = UnboundedSink
    /\ writer_pc = "ready"
    /\ writer_log = <<>>
    /\ ReaderUnborn
    /\ MainIdle

NextWriteRead == (\E item \in Items : write(item)) \/ read \/ next

SpecWriteRead == InitWriteRead /\ [][NextWriteRead]_vars

----------------------------------------------------------------------------
(* main: Config::new, util::to_iter and write() over its items *)

Plus == <<43>>               \* "+"
Minus == <<45>>              \* "-"
Zero == <<48>>               \* "0"

IsDigit(b) == b >= 48 /\ b <= 57

RECURSIVE DigitsValue(_)
\* the number a string of decimal digits denotes
DigitsValue(digits) ==
    IF digits = <<>> THEN 0
    ELSE 10 * DigitsValue(SubSeq(digits, 1, Len(digits) - 1))
             + (digits[Len(digits)] - 48)

\* arg.parse::<usize>(): an optional "+" and at least one digit, nothing else
\* (a "-" is an invalid digit for an unsigned type); the arguments checked
\* are too short to overflow a usize
parse_usize(a) ==
    LET digits == IF a # <<>> /\ a[1] = 43 THEN Tail(a) ELSE a
    IN  IF digits # <<>> /\ \A i \in 1..Len(digits) : IsDigit(digits[i])
        THEN [ok |-> TRUE, value |-> DigitsValue(digits)]
        ELSE [ok |-> FALSE, value |-> 0]

\* Result<InputItemSeparator, String>
Ok(sep) == [kind |-> "Ok", sep |-> sep]
Err == [kind |-> "Err", sep |-> Explicit(<<>>)]

\* parse with the count checked by >= 0 instead of > 0
InputItemSeparator_parse_accepting_zero(a) ==
    IF parse_usize(a).ok
    THEN IF parse_usize(a).value >= 0
         THEN Ok(ByteCount(parse_usize(a).value))
         ELSE Err
    ELSE Ok(Explicit(a))

\* InputItemSeparator::parse
InputItemSeparator_parse(a) ==
    IF parse_usize(a).ok
    THEN IF parse_usize(a).value > 0
         THEN Ok(ByteCount(parse_usize(a).value))
         ELSE Err
    ELSE Ok(Explicit(a))

RECURSIVE Chars(_)
\* s.chars(), each char as the string of its bytes
Chars(s) ==
    IF s = <<>> THEN <<>>
    ELSE LET n == CHOOSE i \in 1..Len(s) :
                      IsCharBoundary(s, i) /\ \A j \in 1..(i - 1) : ~IsCharBoundary(s, j)
         IN  <<SubSeq(s, 1, n)>> \o Chars(Tail_from(s, n))

RECURSIVE split_nonempty_pattern(_, _)
\* str::split_terminator for a non-empty pattern: the pieces between the
\* matches found left to right, without the last piece when it is empty
split_nonempty_pattern(s, pat) ==
    IF Matches(s, pat) = {}
    THEN IF s = <<>> THEN <<>> ELSE <<s>>
    ELSE LET i == SetMin(Matches(s, pat))
         IN  <<SubSeq(s, 1, i)>> \o split_nonempty_pattern(Tail_from(s, i + Len(pat)), pat)

\* str::split_terminator: the empty pattern matches at every char boundary,
\* the start and the end of s included
split_terminator(s, pat) ==
    IF pat = <<>> THEN <<<<>>>> \o Chars(s)
    ELSE split_nonempty_pattern(s, pat)

RECURSIVE to_iter_chunks(_, _)
\* the loop `while !cur.is_empty()` of to_iter: the chunks pushed, and
\* whether split_at has panicked
to_iter_chunks(cur, count) ==
    IF cur = <<>> THEN [panic |-> FALSE, items |-> <<>>]
    ELSE LET mid == IF count < Len(cur) THEN count ELSE Len(cur)
         IN  IF ~IsCharBoundary(cur, mid) THEN [panic |-> TRUE, items |-> <<>>]
             ELSE LET rest == to_iter_chunks(Tail_from(cur, mid), count)
                  IN  [panic |-> rest.panic,
                       items |-> IF rest.panic THEN <<>>
                                 ELSE <<SubSeq(cur, 1, mid)>> \o rest.items]

\* util::to_iter: the items of the iterator returned, or a panic
to_iter(text, sep) ==
    IF sep.kind = "Explicit"
    THEN [panic |-> FALSE, items |-> split_terminator(text, sep.sep)]
    ELSE to_iter_chunks(text, sep.count)

\* let cfg = config::Config::new(): the argument is parsed; an Err ends the
\* process before any input is read
Config_new ==
    /\ main_pc = "start"
    /\ LET parsed == InputItemSeparator_parse(arg)
       IN  IF parsed.kind = "Ok"
           THEN /\ in_fmt' = InFormat(parsed.sep, NoLineSeparator)
                /\ main_pc' = "configured"
           ELSE /\ main_pc' = "rejected"
                /\ UNCHANGED in_fmt
    /\ UNCHANGED <<input, items_in_current_line, reader_pc, orig, reader_log,
                   writer_vars, arg, main_istream>>

\* let istream = util::to_iter(istream_buf.as_str(), &in_fmt.item_separator)
main_to_iter ==
    /\ main_pc = "configured"
    /\ LET it == to_iter(input, in_fmt.item_separator)
       IN  /\ main_istream' = it.items
           /\ main_pc' = IF it.panic THEN "panicked" ELSE "writing"
    /\ UNCHANGED <<reader_vars, writer_vars, arg>>

\* write(istream, ostream, out_fmt)?: one turn of its loop, or its return
main_write ==
    /\ main_pc = "writing"
    /\ IF main_istream = <<>>
       THEN /\ main_pc' = "done"
            /\ UNCHANGED <<writer_vars, main_istream>>
       ELSE /\ write_call(Head(main_istream))
            /\ main_istream' = Tail(main_istream)
            /\ main_pc' = IF writer_pc' = "ready" THEN "writing" ELSE writer_pc'
    /\ UNCHANGED <<reader_vars, arg>>

\* Decimal(n): n written in decimal digits
RECURSIVE Decimal(_)

Decimal(n) ==
    IF n < 10 THEN <<48 + n>> ELSE Decimal(n \div 10) \o <<48 + (n % 10)>>

\* the --in-separator arguments checked: the delimiters of the reader's
\* formats, and the numbers 0..MaxCount plain, signed and with a leading zero
Args ==
    StringsOver(SeparatorChars, MaxSepLen)
        \cup {sign \o Decimal(n) : sign \in {<<>>, Plus, Minus, Zero}, n \in 0..MaxCount}

\* stdout: accepting every byte, or failing once MaxCap bytes are written
MainSinks == {UnboundedSink, BoundedSink(MaxCap)}

\* main before Config::new, with the text stdin will deliver
InitMain ==
    /\ arg \in Args
    /\ main_pc = "start"
    /\ main_istream = <<>>
    /\ input \in Inputs
    /\ orig = input
    /\ in_fmt = InFormat(Explicit(Comma), NoLineSeparator)
    /\ items_in_current_line = 0
    /\ reader_pc = "ready"
    /\ reader_log = <<>>
    /\ separator = NewWriter.separator
    /\ out_fmt = DefaultOutFormat
    /\ items_in_line = NewWriter.items_in_line
    /\ ostream = <<>>
    /\ ostream_cap \in MainSinks
    /\ writer_pc = "ready"
    /\ writer_log = <<>>

NextMain == Config_new \/ main_to_iter \/ main_write

SpecMain == InitMain /\ [][NextMain]_vars

----------------------------------------------------------------------------
(* Properties of the Item Writer, checked under SpecWriter *)

\* the separator due before the i-th item (1-based) of a writer that groups
\* k items per line
DueSeparator(i, k) ==
    IF i = 1 THEN "None" ELSE IF (i - 1) % k = 0 THEN "Line" ELSE "Item"

DueBytes(fmt, due) ==
    IF due = "Line" THEN fmt.line_separator.line_separator
    ELSE IF due = "Item" THEN fmt.item_separator
    ELSE <<>>

RECURSIVE DueStream(_)
\* the due separators and the bytes emitted for the items of the first n calls
DueStream(n) ==
    IF n = 0 THEN <<>>
    ELSE DueStream(n - 1)
             \o DueBytes(out_fmt, DueSeparator(n, out_fmt.line_separator.items_per_line))
             \o writer_log[n].body

\* items ["001","01","1"], span 4, pad '_', anchor Right, "|", ";", 2 per line
WriteTestOutput ==
    write_stream(OutFormat(ItemSpan(4, Underscore, "Right"), Bar, LineSeparator(2, Semicolon)),
                 UnboundedSink, NewWriter, <<>>,
                 << <<48, 48, 49>>, <<48, 49>>, <<49>> >>).ostream

\* C1: with line grouping of k >= 1 items per line, nothing is emitted before
\* the first item, the line separator is emitted before item i > 0 (0-based)
\* exactly when i mod k = 0, the item separator before every other item, and
\* the stream ends with the last item: no separator follows it. The items of
\* write_test::test give "_001|__01;___1".
C1_SeparatorPlacement ==
    /\ out_fmt.line_separator.present =>
          /\ \A i \in 1..Len(writer_log) :
                LET e == writer_log[i]
                    due == DueSeparator(i, out_fmt.line_separator.items_per_line)
                IN  /\ e.separator = due
                    /\ e.res = "Ok" => e.sep_bytes = DueBytes(out_fmt, due)
          /\ writer_pc = "ready" => ostream = DueStream(Len(writer_log))
    /\ WriteTestOutput = <<95, 48, 48, 49, 124, 95, 95, 48, 49, 59, 95, 95, 95, 49>>

\* three items written two per line: no separator, item separator, line separator
C1_Witness ==
    /\ out_fmt.line_separator.present
    /\ out_fmt.line_separator.items_per_line = 2
    /\ Len(writer_log) = 3
    /\ writer_pc = "ready"
    /\ writer_log[2].sep_bytes = out_fmt.item_separator
    /\ writer_log[3].sep_bytes = out_fmt.line_separator.line_separator

\* n copies of the pad char
Copies(pad, n) == [i \in 1..(n * Len(pad)) |-> pad[((i - 1) % Len(pad)) + 1]]

\* C2: an item of at most span scalar values is emitted as exactly span scalar
\* values: the item followed by the pad chars for anchor Left, the pad chars
\* followed by the item for anchor Right.
C2_PaddedToSpan ==
    \A i \in 1..Len(writer_log) :
        LET e == writer_log[i]
            span == out_fmt.span
            missing == span.span - CharCount(e.item)
        IN  (e.res = "Ok" /\ span.present /\ CharCount(e.item) <= span.span) =>
                /\ CharCount(e.body) = span.span
                /\ span.anchor = "Left" => e.body = e.item \o Copies(span.pad, missing)
                /\ span.anchor = "Right" => e.body = Copies(span.pad, missing) \o e.item

\* a one-char, two-byte item padded to two chars, for each anchor
C2_Witness ==
    /\ out_fmt.span.present
    /\ out_fmt.span.span = 2
    /\ out_fmt.span.anchor = "Right"
    /\ \E i \in 1..Len(writer_log) :
          /\ writer_log[i].res = "Ok"
          /\ writer_log[i].item = LetterE
          /\ writer_log[i].body = out_fmt.span.pad \o LetterE

\* C3: an item of at least span scalar values, or any item when no span is
\* configured, is emitted as exactly its own bytes, for either anchor.
C3_NeverTruncated ==
    \A i \in 1..Len(writer_log) :
        LET e == writer_log[i]
        IN  (e.res = "Ok" /\ (~out_fmt.span.present \/ CharCount(e.item) >= out_fmt.span.span)) =>
                e.body = e.item

\* an item wider than the configured span was written whole
C3_Witness ==
    /\ out_fmt.span.present
    /\ out_fmt.span.span >= 1
    /\ \E i \in 1..Len(writer_log) :
          /\ writer_log[i].res = "Ok"
          /\ CharCount(writer_log[i].item) > out_fmt.span.span
          /\ writer_log[i].body = writer_log[i].item

\* the items handed to the writer so far
WrittenItems == [j \in 1..Len(writer_log) |-> writer_log[j].item]

RECURSIVE Emitted(_)
\* the bytes the first n calls of the writer put into the sink
Emitted(n) ==
    IF n = 0 THEN <<>>
    ELSE Emitted(n - 1) \o writer_log[n].sep_bytes \o writer_log[n].body

\* all the bytes due for the item: the item with its padding
WholeBody(fmt, item) ==
    IF Len(item_parts(fmt, item)) = 2
    THEN item_parts(fmt, item)[1] \o item_parts(fmt, item)[2]
    ELSE item_parts(fmt, item)[1]

\* C13: write() stops at the first sink failure. Only the last call of the
\* writer can have failed; when it has, write() has returned the error (as
\* the loop of write() over the same items does), no further item is taken
\* and the sink holds what it had accepted up to the failure, nothing of the
\* item when its separator failed. When no call has failed every item is in
\* the sink whole, behind its separator, and write() over these items
\* returns Ok.
C13_StopsAtFirstFailure ==
    LET n == Len(writer_log)
        whole == write_stream(out_fmt, ostream_cap, NewWriter, <<>>, WrittenItems)
        failed == n > 0 /\ writer_log[n].res = "Err"
    IN  /\ \A j \in 1..(n - 1) : writer_log[j].res = "Ok"
        /\ (writer_pc = "failed") = failed
        /\ (whole.res = "Err") = failed
        /\ whole.ostream = ostream
        /\ ostream = Emitted(n)
        /\ failed =>
              /\ ~ENABLED NextWriter
              /\ writer_log[n].sep_bytes
                     # separator_bytes(out_fmt, writer_log[n].separator)
                  => writer_log[n].body = <<>>
        /\ ~failed =>
              /\ whole.res = "Ok"
              /\ \A j \in 1..n :
                    /\ writer_log[j].sep_bytes
                           = separator_bytes(out_fmt, writer_log[j].separator)
                    /\ writer_log[j].body = WholeBody(out_fmt, writer_log[j].item)

\* the sink has failed in the body of the third item, after taking a part of it
C13_Witness ==
    /\ writer_pc = "failed"
    /\ Len(writer_log) = 3
    /\ writer_log[3].body # <<>>
    /\ writer_log[3].body # WholeBody(out_fmt, writer_log[3].item)
    /\ ~ENABLED NextWriter

RECURSIVE Joined(_, _)
\* the items joined by sep
Joined(items, sep) ==
    IF items = <<>> THEN <<>>
    ELSE IF Len(items) = 1 THEN items[1]
    ELSE Joined(SubSeq(items, 1, Len(items) - 1), sep) \o sep \o items[Len(items)]

\* C17: with the default output format every item is written unchanged, with
\* no padding, exactly one space is written before every item but the first,
\* and no line separator is ever due: as long as the sink has not failed the
\* output is the items joined by single spaces.
C17_DefaultFormat ==
    out_fmt = DefaultOutFormat =>
        /\ \A j \in 1..Len(writer_log) :
              /\ writer_log[j].separator = IF j = 1 THEN "None" ELSE "Item"
              /\ writer_log[j].res = "Ok" =>
                    /\ writer_log[j].sep_bytes = IF j = 1 THEN <<>> ELSE <<32>>
                    /\ writer_log[j].body = writer_log[j].item
        /\ separator # "Line"
        /\ writer_pc = "ready" => ostream = Joined(WrittenItems, <<32>>)

\* three items, an empty one and one with a two-byte char among them, have
\* been written with the default output format
C17_Witness ==
    /\ out_fmt = DefaultOutFormat
    /\ writer_pc = "ready"
    /\ Len(writer_log) = 3
    /\ writer_log[2].item = <<>>
    /\ writer_log[3].item = LetterA \o LetterE
    /\ ostream = writer_log[1].item \o <<32, 32>> \o LetterA \o LetterE

\* some call of ItemWriter::write has returned Ok
WroteSuccessfully == \E j \in 1..Len(writer_log) : writer_log[j].res = "Ok"

\* C20: the pending separator is None exactly when no write has completed
\* successfully; it is Line only when the output format has line grouping, so
\* the unwrap of the line separator never panics; with grouping of k items
\* per line the counter stays within 0..k-1; with no grouping the counter is
\* always 0 and the pending separator is never Line.
C20_WriterInvariant ==
    /\ (separator = "None") = ~WroteSuccessfully
    /\ separator \in {"None", "Item", "Line"}
    /\ separator = "Line" => out_fmt.line_separator.present
    /\ ~unwrap_fails(out_fmt, separator)
    /\ writer_pc # "panicked"
    /\ out_fmt.line_separator.present =>
          (0 <= items_in_line /\ items_in_line < out_fmt.line_separator.items_per_line)
    /\ ~out_fmt.line_separator.present => (items_in_line = 0 /\ separator # "Line")

\* a writer grouping two items per line has written three items: the line
\* separator was pending before the third, the item separator is pending now
C20_Witness ==
    /\ out_fmt.line_separator.present
    /\ out_fmt.line_separator.items_per_line = 2
    /\ Len(writer_log) = 3
    /\ writer_log[3].separator = "Line"
    /\ writer_log[3].res = "Ok"
    /\ separator = "Item"
    /\ items_in_line = 1

\* C21: a call of ItemWriter::write that fails on the sink leaves the pending
\* separator and the per-line item counter as they were before the call.
C21_FailedWriteKeepsCursor ==
    [][writer_pc' = "failed" =>
           (separator' = separator /\ items_in_line' = items_in_line)]_vars

\* the second write of a writer grouping two items per line has failed in the
\* item, its separator written: the item separator is still pending and the
\* counter still 1
C21_Witness ==
    /\ writer_pc = "failed"
    /\ out_fmt.line_separator.present
    /\ out_fmt.line_separator.items_per_line = 2
    /\ Len(writer_log) = 2
    /\ writer_log[2].res = "Err"
    /\ writer_log[2].sep_bytes = out_fmt.item_separator
    /\ writer_log[2].body # <<>>
    /\ separator = "Item"
    /\ items_in_line = 1

----------------------------------------------------------------------------
(* Properties of the Item Reader, checked under SpecReader *)

\* the reader was built with the item separator sep and no line grouping
Ungrouped(sep) == in_fmt.item_separator = sep /\ ~in_fmt.line_separator.present

\* the j-th smallest element of a set of numbers
Nth(S, j) == CHOOSE x \in S : Cardinality({y \in S : y < x}) = j - 1

\* text ends with the join at the greatest offset of J
EndsWithJoin(text, d, J) == J # {} /\ Nth(J, Cardinality(J)) + Len(d) = Len(text)

\* the number of items of text when it is cut at the occurrences J of d
PieceCount(text, d, J) ==
    IF EndsWithJoin(text, d, J) THEN Cardinality(J) ELSE Cardinality(J) + 1

\* the j-th item of text when it is cut at the occurrences J of d
Piece(text, d, J, j) ==
    SubSeq(text,
           (IF j = 1 THEN 0 ELSE Nth(J, j - 1) + Len(d)) + 1,
           IF j <= Cardinality(J) THEN Nth(J, j) ELSE Len(text))

\* text is non-empty items joined by d at the occurrences J of d, d occurring
\* inside no item; a join may end the text
JoinedAt(text, d, J) ==
    /\ \A i, j \in J : i < j => i + Len(d) <= j
    /\ \A j \in 1..PieceCount(text, d, J) :
          /\ Piece(text, d, J, j) # <<>>
          /\ Matches(Piece(text, d, J, j), d) = {}

\* the calls made so far returned the items of text cut at J, in order, and
\* None from then on
YieldsPieces(text, d, J) ==
    \A i \in 1..Len(reader_log) :
        reader_log[i].ret =
            IF i <= PieceCount(text, d, J) THEN Some(Piece(text, d, J, i)) ELSE None

\* Explicit("SEP") on "AAASEPBBSEPCSEPDDD"
ExampleExplicit ==
    read_stream(InFormat(Explicit(<<83, 69, 80>>), NoLineSeparator),
                NewReader(<<65, 65, 65, 83, 69, 80, 66, 66, 83, 69, 80, 67, 83, 69, 80, 68, 68, 68>>),
                8)

\* C4 as stated: for every way of reading the input as non-empty items joined
\* by d, with d inside no item, the reader yields exactly those items and then
\* None.
C4_AsStated ==
    \A sep \in {in_fmt.item_separator} :
        (sep.kind = "Explicit" /\ Ungrouped(sep)) =>
            \A J \in SUBSET Matches(orig, sep.sep) :
                JoinedAt(orig, sep.sep, J) => YieldsPieces(orig, sep.sep, J)

\* C4 (amended): with Explicit(d) and no line grouping, on an input of
\* non-empty items joined by d in which d occurs at the joins only, the reader
\* yields exactly those items in order and then None; their number is the
\* number of occurrences of d plus one, or the number of occurrences when the
\* input ends with d. "SEP" on "AAASEPBBSEPCSEPDDD" yields AAA, BB, C, DDD.
C4_JoinedItems ==
    /\ \A sep \in {in_fmt.item_separator} :
          (sep.kind = "Explicit" /\ Ungrouped(sep)
              /\ JoinedAt(orig, sep.sep, Matches(orig, sep.sep))) =>
                  YieldsPieces(orig, sep.sep, Matches(orig, sep.sep))
    /\ ExampleExplicit = << <<65, 65, 65>>, <<66, 66>>, <<67>>, <<68, 68, 68>> >>

\* two items and then None, read from an input joined by a delimiter
C4_Witness ==
    /\ in_fmt.item_separator.kind = "Explicit"
    /\ Ungrouped(in_fmt.item_separator)
    /\ JoinedAt(orig, in_fmt.item_separator.sep, Matches(orig, in_fmt.item_separator.sep))
    /\ PieceCount(orig, in_fmt.item_separator.sep, Matches(orig, in_fmt.item_separator.sep)) = 2
    /\ Len(reader_log) = 3
    /\ reader_log[2].ret.kind = "Some"
    /\ reader_log[3].ret = None

\* call i returned None because the text before the delimiter match was empty
EmptyItemAt(i) ==
    /\ reader_log[i].ret = None
    /\ reader_log[i].separator.kind = "Explicit"
    /\ reader_log[i].before # <<>>
    /\ MatchAt(reader_log[i].before, reader_log[i].separator.sep, 0)

\* C5: once next() has returned None because the text before the delimiter
\* match was empty, every later call of next() on the reader returns None.
C5_NoneIsFinal ==
    \A i, j \in 1..Len(reader_log) :
        (i < j /\ EmptyItemAt(i)) => reader_log[j].ret = None

\* C6: every Some(item) returned by next() is a non-empty string, for every
\* input and every input format.
C6_NoEmptyItem ==
    \A i \in 1..Len(reader_log) :
        reader_log[i].ret.kind = "Some" => reader_log[i].ret.item # <<>>

\* an item was yielded and a later would-be-empty item was answered by None
C6_Witness ==
    \E i, j \in 1..Len(reader_log) :
        /\ i < j
        /\ reader_log[i].ret.kind = "Some"
        /\ EmptyItemAt(j)

\* the i-th chunk of n bytes of text
Chunk(text, n, i) == SubSeq(text, (i - 1) * n + 1, i * n)

\* every split point of ByteCount(n) among the first q is a char boundary
BoundariesAt(text, n, q) == \A j \in 1..q : IsCharBoundary(text, j * n)

\* the calls made so far returned the first q chunks of n bytes and None from
\* then on
YieldsChunks(n, q) ==
    \A i \in 1..Len(reader_log) :
        reader_log[i].ret = IF i <= q THEN Some(Chunk(orig, n, i)) ELSE None

\* C7 as stated: with ByteCount(n) and no line grouping, every input whose byte
\* length is a multiple of n yields length/n items of n bytes and then None.
C7_AsStated ==
    \A n \in 1..MaxCount :
        (Ungrouped(ByteCount(n)) /\ Len(orig) % n = 0) =>
            YieldsChunks(n, Len(orig) \div n)

\* C7 (amended): with ByteCount(n), n >= 1, and no line grouping, an input whose
\* byte length is a multiple of n and whose offsets n, 2n, ... are char
\* boundaries yields exactly length/n items, each of n bytes, in input order,
\* and then None.
C7_ExactMultiple ==
    \A n \in 1..MaxCount :
        (Ungrouped(ByteCount(n)) /\ Len(orig) % n = 0
            /\ BoundariesAt(orig, n, Len(orig) \div n)) =>
                /\ YieldsChunks(n, Len(orig) \div n)
                /\ \A i \in 1..Len(reader_log) :
                      reader_log[i].ret.kind = "Some" => Len(reader_log[i].ret.item) = n

\* two chunks of two bytes and then None
C7_Witness ==
    /\ Ungrouped(ByteCount(2))
    /\ Len(orig) = 4
    /\ BoundariesAt(orig, 2, 2)
    /\ Len(reader_log) = 3
    /\ reader_log[2].ret = Some(Chunk(orig, 2, 2))
    /\ reader_log[3].ret = None

\* the calls made so far returned the first q chunks of n bytes, then None
\* leaving the input empty, and None from then on
YieldsChunksDroppingRest(n, q) ==
    /\ YieldsChunks(n, q)
    /\ Len(reader_log) > q => reader_log[q + 1].after = <<>>

\* C8 as stated: with ByteCount(n) and no line grouping, every input whose byte
\* length is not a multiple of n yields floor(length/n) items of n bytes; the
\* short remainder is discarded and the remaining input becomes empty.
C8_AsStated ==
    \A n \in 1..MaxCount :
        (Ungrouped(ByteCount(n)) /\ Len(orig) % n # 0) =>
            YieldsChunksDroppingRest(n, Len(orig) \div n)

\* C8 (amended): with ByteCount(n), n >= 1, and no line grouping, an input whose
\* byte length is not a multiple of n and whose offsets n, 2n, ... are char
\* boundaries yields exactly floor(length/n) items of n bytes each; the final
\* remainder of fewer than n bytes is never yielded and the call that meets
\* it returns None and leaves the remaining input empty.
C8_ShortRemainder ==
    \A n \in 1..MaxCount :
        (Ungrouped(ByteCount(n)) /\ Len(orig) % n # 0
            /\ BoundariesAt(orig, n, Len(orig) \div n)) =>
                YieldsChunksDroppingRest(n, Len(orig) \div n)

\* one chunk of two bytes, then None on a remainder of one byte
C8_Witness ==
    /\ Ungrouped(ByteCount(2))
    /\ Len(orig) = 3
    /\ Len(reader_log) = 2
    /\ reader_log[1].ret = Some(Chunk(orig, 2, 1))
    /\ Len(reader_log[2].before) = 1
    /\ reader_log[2].ret = None
    /\ input = <<>>

\* the number of items yielded before the first call that yields none
YieldedCount ==
    Cardinality({i \in 1..Len(reader_log) :
                    \A j \in 1..i : reader_log[j].ret.kind = "Some"})

\* C9 as stated: with ByteCount(n), with or without line grouping, the reader
\* yields at most ceil(input byte length / n) items before its first None.
C9_AsStated ==
    in_fmt.item_separator.kind = "ByteCount" =>
        YieldedCount * in_fmt.item_separator.count
            <= Len(orig) + in_fmt.item_separator.count - 1

\* C9 (amended): with ByteCount(n), n >= 1, and no line grouping, the reader
\* yields at most ceil(input byte length / n) items before its first None;
\* with line grouping the items delimited by the line separator may be shorter
\* than n bytes and the reader yields at most as many items as the input has
\* bytes.
C9_ItemCountBound ==
    in_fmt.item_separator.kind = "ByteCount" =>
        IF in_fmt.line_separator.present
        THEN YieldedCount <= Len(orig)
        ELSE YieldedCount * in_fmt.item_separator.count
                 <= Len(orig) + in_fmt.item_separator.count - 1

\* an ungrouped ByteCount reader that yielded ceil(length / n) = 2 items
C9_Witness ==
    /\ Ungrouped(ByteCount(2))
    /\ Len(orig) = 4
    /\ YieldedCount = 2
    /\ Len(reader_log) = 3

\* the bytes of the two separators of an input format
SeparatorBytes(f) ==
    {f.item_separator.sep[i] : i \in 1..Len(f.item_separator.sep)}
        \cup {f.line_separator.line_separator[i] :
                 i \in 1..Len(f.line_separator.line_separator)}

\* t is a non-empty text that holds no byte of a separator of f
IsPlain(t, f) == t # <<>> /\ \A i \in 1..Len(t) : t[i] \notin SeparatorBytes(f)

\* item i of a line of k items is the last of its line
EndsLine(i, k) == i % k = 0

\* t can be item i of an input laid out for f: with ByteCount(n) every item but
\* the last of a line has n bytes; an explicit item separator is not empty
FitsAt(t, f, i) ==
    /\ IsPlain(t, f)
    /\ IF f.item_separator.kind = "ByteCount"
       THEN EndsLine(i, f.line_separator.items_per_line)
                \/ Len(t) = f.item_separator.count
       ELSE f.item_separator.sep # <<>>

\* the separator that follows item i in the layout: the line separator after
\* the last item of a line, the item separator (nothing for ByteCount) after
\* every other item
SeparatorAfter(f, i) ==
    IF EndsLine(i, f.line_separator.items_per_line)
    THEN f.line_separator.line_separator
    ELSE f.item_separator.sep

RECURSIVE LaidOutItems(_, _, _)
\* the item lists of which text is the layout, as items i, i+1, ... of lines of
\* items_per_line items; the separator after the last item may be left out
LaidOutItems(text, f, i) ==
    IF text = <<>> THEN {<<>>}
    ELSE UNION {
        LET t == SubSeq(text, 1, p)
            rest == Tail_from(text, p)
            sep == SeparatorAfter(f, i)
        IN  IF ~(IsCharBoundary(text, p) /\ FitsAt(t, f, i)) THEN {}
            ELSE (IF rest = <<>> THEN {<<t>>} ELSE {})
                     \cup (IF MatchAt(rest, sep, 0)
                           THEN {<<t>> \o l : l \in LaidOutItems(Tail_from(rest, Len(sep)), f, i + 1)}
                           ELSE {})
        : p \in 1..Len(text)}

\* the last call made is the first one that yielded no item
FirstNoneReturned ==
    /\ reader_log # <<>>
    /\ \A j \in 1..Len(reader_log) :
          (reader_log[j].ret.kind = "Some") <=> (j < Len(reader_log))

\* the items yielded before the last call
YieldedItems == [j \in 1..(Len(reader_log) - 1) |-> reader_log[j].ret.item]

\* ByteCount(2), 3 items per line, ";" on "aavvcc;ddeebb;"
ExampleByteCountMultiline ==
    read_stream(InFormat(ByteCount(2), LineSeparator(3, Semicolon)),
                NewReader(<<97, 97, 118, 118, 99, 99, 59, 100, 100, 101, 101, 98, 98, 59>>),
                8)

\* C10: with input line grouping (k items per line, line separator L) each
\* call of next() chooses its delimiter from the reader's counter, which starts
\* at 0: at k-1 the delimiter is Explicit(L), also for a ByteCount item
\* separator, and the counter returns to 0; otherwise the delimiter is the item
\* separator and the counter grows by one. Hence an input laid out as lines of
\* k items yields exactly its items, in order, and then None; ByteCount(2),
\* k = 3, ";" on "aavvcc;ddeebb;" yields aa, vv, cc, dd, ee, bb.
C10_LineGrouping ==
    /\ in_fmt.line_separator.present =>
          /\ \A i \in 1..Len(reader_log) :
                LET e == reader_log[i]
                IN  /\ e.counter_before = IF i = 1 THEN 0 ELSE reader_log[i - 1].counter_after
                    /\ IF e.counter_before = in_fmt.line_separator.items_per_line - 1
                       THEN /\ e.separator = Explicit(in_fmt.line_separator.line_separator)
                            /\ e.counter_after = 0
                       ELSE /\ e.separator = in_fmt.item_separator
                            /\ e.counter_after = e.counter_before + 1
          /\ items_in_current_line =
                IF reader_log = <<>> THEN 0 ELSE reader_log[Len(reader_log)].counter_after
          /\ FirstNoneReturned =>
                \A items \in LaidOutItems(orig, in_fmt, 1) :
                    /\ reader_log[Len(reader_log)].ret = None
                    /\ YieldedItems = items
    /\ ExampleByteCountMultiline =
          << <<97, 97>>, <<118, 118>>, <<99, 99>>, <<100, 100>>, <<101, 101>>, <<98, 98>> >>

\* a line of two items and the first item of the next line were read: the
\* item separator, the line separator and the item separator again were used
C10_Witness ==
    /\ in_fmt.line_separator.present
    /\ in_fmt.line_separator.items_per_line = 2
    /\ in_fmt.item_separator.kind = "ByteCount"
    /\ FirstNoneReturned
    /\ Len(reader_log) = 4
    /\ reader_log[2].separator = Explicit(in_fmt.line_separator.line_separator)
    /\ reader_log[2].after # <<>>
    /\ \E items \in LaidOutItems(orig, in_fmt, 1) : Len(items) = 3

\* byte offset n of text falls inside a multi-byte char, at least n bytes
\* remaining
InsideChar(text, n) == Len(text) >= n /\ ~IsCharBoundary(text, n)

\* item is made of whole chars of the input alphabet: it neither starts nor
\* ends inside a char
WholeChars(item) == \A j \in 1..Len(Chars(item)) : Chars(item)[j] \in InputChars

\* C14: a step that splits by ByteCount(n), with at least n bytes remaining
\* and byte offset n of the remaining input inside a multi-byte char, panics:
\* the call yields no item, consumes nothing and is the reader's last, and
\* util::to_iter panics on the same remaining input and yields nothing. No
\* item a byte-count split of the reader or of to_iter yields starts or ends
\* inside a char. (Stated of the latest call: every call is the latest one in
\* the state it leads to.)
C14_PanicsInsideChar ==
    /\ reader_log # <<>> =>
          LET e == reader_log[Len(reader_log)]
          IN  /\ (e.separator.kind = "ByteCount" /\ InsideChar(e.before, e.separator.count)) =>
                    /\ e.ret = Panic
                    /\ e.after = e.before
                    /\ reader_pc = "panicked"
                    /\ ~ENABLED NextReader
                    /\ to_iter(e.before, e.separator) = [panic |-> TRUE, items |-> <<>>]
              /\ (e.separator.kind = "ByteCount" /\ e.ret.kind = "Some") =>
                    WholeChars(e.ret.item)
    /\ (in_fmt.item_separator.kind = "ByteCount" /\ reader_log = <<>>) =>
          LET items == to_iter(orig, in_fmt.item_separator).items
          IN  \A j \in 1..Len(items) : WholeChars(items[j])

\* the reader has yielded an item and then panicked at a split inside a
\* two-byte char, where to_iter panics too
C14_Witness ==
    /\ reader_pc = "panicked"
    /\ Len(reader_log) = 2
    /\ reader_log[1].ret.kind = "Some"
    /\ reader_log[2].separator.kind = "ByteCount"
    /\ InsideChar(reader_log[2].before, reader_log[2].separator.count)
    /\ to_iter(reader_log[2].before, reader_log[2].separator).panic
    /\ to_iter(orig, in_fmt.item_separator).panic

\* every call that returned an item left a strictly shorter remaining input
ItemsShortenInput ==
    \A i \in 1..Len(reader_log) :
        reader_log[i].ret.kind = "Some" =>
            Len(reader_log[i].after) < Len(reader_log[i].before)

\* some call has returned None
ReturnedNone == \E i \in 1..Len(reader_log) : reader_log[i].ret = None

\* C16 as stated: every call that returns an item strictly shortens the
\* remaining input, and next() returns None after finitely many calls: no
\* reader runs through more calls than its input has chars, or stops taking
\* calls, without having returned None.
C16_AsStated ==
    /\ ItemsShortenInput
    /\ (Len(reader_log) > CharCount(orig) \/ reader_pc # "ready") => ReturnedNone

\* C16: every call that returns an item strictly shortens the remaining
\* input, and after at most one call more than the input has chars next() has
\* returned None or has panicked; it panics only at a ByteCount split inside
\* a multi-byte char.
C16_FiniteSequence ==
    /\ ItemsShortenInput
    /\ Len(reader_log) > CharCount(orig) => (ReturnedNone \/ reader_pc = "panicked")
    /\ reader_pc = "panicked" =>
          LET e == reader_log[Len(reader_log)]
          IN  /\ e.ret = Panic
              /\ e.separator.kind = "ByteCount"
              /\ InsideChar(e.before, e.separator.count)
    /\ reader_pc \in {"ready", "panicked"}

\* a reader has yielded one item per char of an input of at least three chars
\* and then returned None
C16_Witness ==
    /\ CharCount(orig) >= 3
    /\ Len(reader_log) = CharCount(orig) + 1
    /\ \A i \in 1..CharCount(orig) : reader_log[i].ret.kind = "Some"
    /\ reader_log[Len(reader_log)].ret = None

\* text is a suffix of the original input
IsSuffix(text) ==
    Len(text) <= Len(orig) /\ text = Tail_from(orig, Len(orig) - Len(text))

\* the byte offset in the original input at which the suffix text starts
OffsetOf(text) == Len(orig) - Len(text)

\* the byte offset in the original input at which the i-th call's item ends
EndOf(i) == OffsetOf(reader_log[i].before) + Len(reader_log[i].ret.item)

\* the i-th call returned an item
Yielded(i) == reader_log[i].ret.kind = "Some"

\* the i-th call yielded the bytes of the original input from where its
\* remaining input started, ending no later than its new remaining input
YieldedInPlace(i) ==
    /\ reader_log[i].ret.item = SubSeq(orig, OffsetOf(reader_log[i].before) + 1, EndOf(i))
    /\ EndOf(i) <= OffsetOf(reader_log[i].after)

\* C19: in every reader state the remaining input is a suffix of the
\* original input, before and after every call; every yielded item is a
\* contiguous substring of the original input lying entirely before the
\* remaining input; and of two yielded items the later one starts at or after
\* the end of the earlier one, at a strictly greater position. (The suffix,
\* substring and order properties are stated of the latest call against all
\* earlier ones: every call is the latest one in the state it leads to.)
C19_ItemsAreSlices ==
    /\ IsSuffix(input)
    /\ \A i \in 1..Len(reader_log) : Yielded(i) => EndOf(i) <= OffsetOf(input)
    /\ reader_log # <<>> =>
          LET n == Len(reader_log)
          IN  /\ IsSuffix(reader_log[n].before)
              /\ IsSuffix(reader_log[n].after)
              /\ reader_log[n].after = input
              /\ OffsetOf(reader_log[n].before) <= OffsetOf(reader_log[n].after)
              /\ Yielded(n) =>
                    /\ YieldedInPlace(n)
                    /\ \A i \in 1..(n - 1) :
                          Yielded(i) =>
                              /\ OffsetOf(reader_log[i].before) < OffsetOf(reader_log[n].before)
                              /\ EndOf(i) <= OffsetOf(reader_log[n].before)

\* a line-grouping reader has yielded three items, a separator skipped
\* between the second and the third
C19_Witness ==
    /\ in_fmt.line_separator.present
    /\ Len(reader_log) = 3
    /\ \A i \in 1..3 : Yielded(i)
    /\ OffsetOf(reader_log[3].before) > EndOf(2)

----------------------------------------------------------------------------
(* Properties of the reader feeding the writer, checked under SpecReadWrite *)

\* the run is a round trip on the delimiter d
RoundTrip(d) ==
    /\ in_fmt = RoundTripFormats(d).in_fmt
    /\ out_fmt = RoundTripFormats(d).out_fmt

\* text ends with d
EndsWith(text, d) == Len(text) >= Len(d) /\ MatchAt(text, d, Len(text) - Len(d))

RECURSIVE DelimitedItems(_, _)
\* the items of a text delimited by the non-empty d: the pieces between the
\* occurrences of d found left to right (the empty text has no item)
DelimitedItems(text, d) ==
    IF text = <<>> THEN <<>>
    ELSE IF Matches(text, d) = {} THEN <<text>>
    ELSE LET i == SetMin(Matches(text, d))
             rest == Tail_from(text, i + Len(d))
         IN  <<SubSeq(text, 1, i)>> \o (IF rest = <<>> THEN <<<<>>>> ELSE DelimitedItems(rest, d))

\* d does not occur inside any item of text, text does not end with d and
\* text contains no empty item
CleanlyDelimited(text, d) ==
    /\ d # <<>>
    /\ ~EndsWith(text, d)
    /\ \A j \in 1..Len(DelimitedItems(text, d)) :
          /\ DelimitedItems(text, d)[j] # <<>>
          /\ Matches(DelimitedItems(text, d)[j], d) = {}

\* C11: a text whose items are non-empty and free of the delimiter d, and
\* which does not end with d, is reproduced byte for byte when it is read
\* with Explicit(d) and no line grouping and written with item separator d,
\* no span and no line grouping: the write never fails on a sink that takes
\* every byte, and once write() has returned the output is the input.
C11_RoundTrip ==
    \A s \in {x \in ItemSeparators : x.kind = "Explicit"} :
        (RoundTrip(s.sep) /\ CleanlyDelimited(orig, s.sep)) =>
            /\ ~ostream_cap.bounded => writer_pc \in {"ready", "done"}
            /\ writer_pc = "done" => ostream = orig

\* write() has returned after a round trip on "," of at least two items, one
\* of them a two-byte char
C11_Witness ==
    /\ writer_pc = "done"
    /\ RoundTrip(Comma)
    /\ CleanlyDelimited(orig, Comma)
    /\ Len(writer_log) >= 2
    /\ \E j \in 1..Len(writer_log) : writer_log[j].item = LetterE
    /\ ostream = orig
\* C12: on the empty input, whatever the input format and the output format,
\* the first next() returns None, so the item sequence is empty, and write()
\* over it calls the writer for no item, puts no byte into the sink and
\* returns Ok.
C12_EmptyInput ==
    orig = <<>> =>
        /\ reader_log # <<>> => (reader_log[1].ret = None /\ writer_pc = "done")
        /\ read_stream(in_fmt, NewReader(orig), MaxCalls) = <<>>
        /\ write_stream(out_fmt, ostream_cap, NewWriter, <<>>, <<>>)
               = [res |-> "Ok", ostream |-> <<>>]
        /\ writer_log = <<>>
        /\ ostream = <<>>

\* write() has returned on the empty input, read with an explicit separator and
\* line grouping and written with padding and line grouping to a full sink
C12_Witness ==
    /\ orig = <<>>
    /\ writer_pc = "done"
    /\ in_fmt.item_separator = Explicit(Comma)
    /\ in_fmt.line_separator.present
    /\ out_fmt.span.present /\ out_fmt.span.span > 0
    /\ out_fmt.line_separator.present
    /\ ostream_cap = BoundedSink(0)
----------------------------------------------------------------------------
(* Properties of main, checked under SpecMain *)

\* a is the decimal numeral of an integer: an optional sign and digits
IsNumeral(a) ==
    LET digits == IF a # <<>> /\ a[1] \in {43, 45} THEN Tail(a) ELSE a
    IN  digits # <<>> /\ \A i \in 1..Len(digits) : IsDigit(digits[i])

\* the numeral a denotes zero or a negative number
DenotesNonPositive(a) ==
    /\ IsNumeral(a)
    /\ \/ a[1] = 45
       \/ DigitsValue(IF a[1] = 43 THEN Tail(a) ELSE a) = 0

\* the numeral a denotes zero and carries no minus sign
DenotesUnsignedZero(a) == DenotesNonPositive(a) /\ a[1] # 45

\* Config::new has run
Configured == main_pc # "start"

\* nothing of the input has been processed
NothingProcessed == main_istream = <<>> /\ writer_log = <<>> /\ ostream = <<>>

\* C15 as stated: every argument that denotes zero or a negative byte count is
\* rejected at configuration time, and the separator is never ByteCount(0).
C15_AsStated ==
    /\ (Configured /\ DenotesNonPositive(arg)) => main_pc = "rejected"
    /\ in_fmt.item_separator # ByteCount(0)

\* C15: an argument that denotes zero without a minus sign ("0", "00", "+0")
\* is rejected at configuration time, before anything is processed, and no
\* other argument is; parse never returns ByteCount(0); an argument with a
\* leading minus sign is not a number to parse and becomes the explicit
\* separator of that text.
C15_ZeroRejected ==
    /\ Configured =>
          /\ (main_pc = "rejected") = DenotesUnsignedZero(arg)
          /\ main_pc = "rejected" => NothingProcessed
          /\ (main_pc # "rejected" /\ arg # <<>> /\ arg[1] = 45) =>
                 in_fmt.item_separator = Explicit(arg)
    /\ in_fmt.item_separator # ByteCount(0)
    /\ InputItemSeparator_parse(arg) # Ok(ByteCount(0))
    /\ DenotesUnsignedZero(arg) => InputItemSeparator_parse(arg) = Err

\* the argument "+0" has been rejected
C15_Witness ==
    /\ arg = Plus \o Zero
    /\ main_pc = "rejected"
    /\ NothingProcessed
\* to_iter has returned main's item sequence and nothing of it is written yet
ItemsObtained == main_pc = "writing" /\ writer_log = <<>>

\* C18: the item sequence main feeds to write(), the one util::to_iter
\* returns, is the sequence read() yields for the same input text and item
\* separator with no line grouping.
C18_SameAsReader ==
    ItemsObtained =>
        main_istream = read_stream(InFormat(in_fmt.item_separator, NoLineSeparator),
                                   NewReader(orig), Len(orig) + 1)
----------------------------------------------------------------------------
(* Properties of reading back what was written, checked under SpecWriteRead *)

\* every written item is non-empty and contains neither the item separator
\* nor the line separator
WrittenPlain ==
    \A j \in 1..Len(writer_log) :
        /\ writer_log[j].item # <<>>
        /\ Matches(writer_log[j].item, out_fmt.item_separator) = {}
        /\ Matches(writer_log[j].item, out_fmt.line_separator.line_separator) = {}

\* the separator the writer puts after the j-th item when another follows
SeparatorWrittenAfter(j) ==
    IF EndsLine(j, out_fmt.line_separator.items_per_line)
    THEN out_fmt.line_separator.line_separator
    ELSE out_fmt.item_separator

\* in every written item followed by its separator, the separator first
\* occurs where the item ends: no occurrence starts inside the item
CleanJoins ==
    \A j \in 1..(Len(writer_log) - 1) :
        SetMin(Matches(writer_log[j].item \o SeparatorWrittenAfter(j),
                       SeparatorWrittenAfter(j)))
            = Len(writer_log[j].item)

\* the calls of next() made so far have returned the written items in order,
\* and None after the last of them
ReadsBackWritten ==
    \A i \in 1..Len(reader_log) :
        reader_log[i].ret = IF i <= Len(writer_log)
                            THEN Some(writer_log[i].item)
                            ELSE None

\* C22 as stated: non-empty items that contain neither separator, written
\* with item separator s and k items per line closed by L and read back with
\* Explicit(s) and the same line grouping, are yielded as written, in order.
C22_AsStated == WrittenPlain => ReadsBackWritten

\* C22: non-empty items that contain neither separator, and in which no
\* occurrence of the separator written after an item starts inside that
\* item, are yielded as written, in order, when written with item separator s
\* and k items per line closed by L and read back with Explicit(s) and the
\* same line grouping: the reader looks for the line separator at exactly
\* the boundaries where the writer wrote it.
C22_MatchingGrouping == (WrittenPlain /\ CleanJoins) => ReadsBackWritten

\* three items written two per line with separators ",;" and ";" have been
\* read back, the line separator found after the second, and None returned
C22_Witness ==
    /\ out_fmt = MatchingFormats(Comma \o Semicolon, 2, Semicolon).out_fmt
    /\ WrittenItems = <<LetterA, LetterE, LetterA \o LetterE>>
    /\ Len(reader_log) = 4
    /\ reader_log[2].separator = Explicit(Semicolon)
    /\ reader_log[3].ret = Some(LetterA \o LetterE)
    /\ reader_log[4].ret = None
    /\ WrittenPlain
    /\ CleanJoins
====
